---- MODULE Spec2Model ----
(***************************************************************************)
(* Podcast generator (src/app.py): the /generate request handler and the   *)
(* stages it sequences: research, script, voice, jingle, assembly.         *)
(*                                                                         *)
(* A Python str is a sequence of fragments, each fragment a TLA+ string:   *)
(* one character where the code looks at characters (strip, lower, file    *)
(* names), a whole literal where it only concatenates.                     *)
(***************************************************************************)
EXTENDS Integers, Sequences, FiniteSets, TLC

VARIABLES
    MINIMAX_API_KEY,     \* src/app.py:29
    MINIMAX_GROUP_ID,    \* src/app.py:30
    ELEVENLABS_API_KEY,  \* src/app.py:31
    pc,                  \* position of the generate_podcast coroutine
    topic, url, tone,    \* locals of generate_podcast (lines 529-531, 543)
    job_id,              \* line 536
    research_brief,      \* line 541 / 545
    script,              \* line 548
    clip_paths,          \* line 307 / 551
    jingle_path,         \* line 554
    final_path,          \* line 555
    response,            \* the HTTP response of the request
    fs,                  \* the file system below the working directory
    i,                   \* loop index of generate_voice_clips (line 308)
    attempt,             \* loop index of generate_jingle (line 389)
    polls,               \* status polls issued by the running generate_jingle
    waited,              \* time units slept by the running generate_jingle
    downloads,           \* jingle downloads issued by the running generate_jingle
    started,             \* stages the orchestrator has called, in call order
    active,              \* stages called and not yet returned
    lookups,             \* research lookups issued, in order
    requests,            \* requests issued to the LLM, speech and music services
    synth_failed,        \* indices of the lines whose synthesis failed
    llm_fault,           \* what went wrong in the script stage, if anything
    jingle_fault,        \* where generate_jingle caught an exception, if anywhere
    tts_requests,        \* the speech requests issued: line index and voice
    fail_limit,          \* synthesis failures the environment injects into the job
    pending_limit,       \* polls of the job the music service answers as pending
    lookup_outcome,      \* how the research lookup of the job went
    llm_content,         \* the text handed to _parse_script_json on its own
    parse_result,        \* what that call of _parse_script_json returned or raised
    jobs,                \* the requests of two clients served concurrently
    last_status          \* what the latest status poll of generate_jingle reported

vars == << MINIMAX_API_KEY, MINIMAX_GROUP_ID, ELEVENLABS_API_KEY, pc, topic, url,
           tone, job_id, research_brief, script, clip_paths, jingle_path,
           final_path, response, fs, i, attempt, polls, waited, downloads,
           started, active, lookups, requests, synth_failed, llm_fault,
           jingle_fault, tts_requests, fail_limit, pending_limit,
           lookup_outcome, llm_content, parse_result, jobs, last_status >>

----------------------------------------------------------------------------
(* Bounds of the model *)

\* longest array the modelled LLM replies carry
MaxScriptLen == 2
\* synthesis failures the environment injects into one job
MaxSynthFailures == 1
\* status polls of one job the music service answers as still pending
MaxPendingPolls == 2
\* lines of the long script of SpecOrder
LongScriptLen == 1002
\* lines at the end of the long script whose synthesis may succeed
OpenLines == 6
\* lines of the script whose clips SpecStitch assembles
MaxClips == 3

----------------------------------------------------------------------------
(* Python values *)

None == << "<None>" >>
EmptyStr == << >>

Truthy(s) == s # EmptyStr /\ s # None

Whitespace == { " ", "\n", "\t" }

RECURSIVE lstrip(_)
lstrip(s) == IF s # << >> /\ Head(s) \in Whitespace THEN lstrip(Tail(s)) ELSE s

RECURSIVE rstrip(_)
rstrip(s) ==
    IF s # << >> /\ s[Len(s)] \in Whitespace
    THEN rstrip(SubSeq(s, 1, Len(s) - 1))
    ELSE s

\* str.strip()
strip(s) == rstrip(lstrip(s))

\* dict.get(key, default) on the request body
Get(d, key, default) == IF key \in DOMAIN d THEN d[key] ELSE default

Range(f) == { f[x] : x \in DOMAIN f }

----------------------------------------------------------------------------
(* The file system: a function from the paths that exist to what is there.  *)
(* A path is the sequence of its components, each a Python str.            *)

OUTPUT_DIR == << <<"output">> >>

Dir == [kind |-> "dir", audio |-> << >>]
File(audio) == [kind |-> "file", audio |-> audio]

Prefixes(path) == { SubSeq(path, 1, n) : n \in 1..Len(path) }

\* Path.mkdir(parents=True, exist_ok=True)
mkdir(f, path) ==
    [p \in (DOMAIN f) \cup Prefixes(path) |-> IF p \in DOMAIN f THEN f[p] ELSE Dir]

\* Path.write_bytes / AudioSegment.export: creates or overwrites the file
write(f, path, audio) ==
    [p \in (DOMAIN f) \cup {path} |-> IF p = path THEN File(audio) ELSE f[p]]

exists(f, path) == path \in DOMAIN f

----------------------------------------------------------------------------
(* The request *)

\* the ids uuid4 may hand out, cut to their first 8 characters (line 536)
JobIds == { << "3f2a9c1e" >> }

TopicInputs == { << " ", " " >>, << " ", "b", "h", "\n" >>, None }
UrlInputs == { << "\t" >>, << "http://x/a" >>, None }
ToneInputs == { << " ", "casual", "\n" >> }

\* a JSON body: any of the three keys may be missing, a JSON null reads as None
Bodies ==
    { [k \in keys |-> CASE k = "topic" -> t [] k = "url" -> u [] OTHER -> n] :
        keys \in SUBSET { "topic", "url", "tone" },
        t \in TopicInputs, u \in UrlInputs, n \in ToneInputs }

HTTPException(code, detail) == [status |-> code, body |-> << detail >>]
\* what the framework answers when the handler raises anything else
InternalServerError == [status |-> 500, body |-> << "Internal Server Error" >>]
NoResponse == [status |-> 0, body |-> << >>]

----------------------------------------------------------------------------
(* Phase 2: research *)

\* what the encyclopedia answers to the two requests of research_topic
WikiReplies ==
    { [search |-> s, extract |-> e] :
        s \in { "error", "malformed", "no_titles", "hit" },
        e \in { "error", "no_pages", "empty", "text" } }

WikiTitle == << "Black hole" >>
WikiExtract == << "<extract>" >>

\* research_topic taking titles[0] without looking whether there is a title
research_topic_unchecked_titles(t, wiki) ==
    LET failed == << "Topic: " >> \o t
                  \o << ". (Wikipedia lookup failed -- generate from general knowledge.)" >>
    IN  CASE wiki.search \in { "error", "malformed", "no_titles" } -> failed
          [] wiki.extract \in { "error", "no_pages" } -> failed
          [] wiki.extract = "text" ->
                << "Wikipedia -- " >> \o WikiTitle \o << "\n\n" >> \o WikiExtract
          [] OTHER ->
                << "Topic: " >> \o t
                \o << ". (Wikipedia extract was empty -- generate from general knowledge.)" >>

research_topic(t, wiki) ==
    LET failed == << "Topic: " >> \o t
                  \o << ". (Wikipedia lookup failed -- generate from general knowledge.)" >>
    IN  CASE wiki.search \in { "error", "malformed" } -> failed
          [] wiki.search = "no_titles" ->
                << "Topic: " >> \o t
                \o << ". (No Wikipedia article found -- generate from general knowledge.)" >>
          [] wiki.extract \in { "error", "no_pages" } -> failed
          [] wiki.extract = "text" ->
                << "Wikipedia -- " >> \o WikiTitle \o << "\n\n" >> \o WikiExtract
          [] OTHER ->
                << "Topic: " >> \o t
                \o << ". (Wikipedia extract was empty -- generate from general knowledge.)" >>

\* what fetching the submitted URL gives
PageReplies == { "error", "empty", "text" }

PageExcerpt == << "<excerpt>" >>

research_url(u, page) ==
    CASE page = "text" -> << "Source: " >> \o u \o << "\n\n" >> \o PageExcerpt
      [] page = "empty" ->
            << "Article URL: " >> \o u
            \o << ". (Page content was empty -- generate from general knowledge.)" >>
      [] OTHER ->
            << "Article URL: " >> \o u
            \o << ". (Scraping failed -- generate from general knowledge.)" >>

----------------------------------------------------------------------------
(* Phase 3: script.  The LLM's content is a sequence of tokens: Fence (a  *)
(* run of three backticks), "json", white space, "[", "]", ",", a JSON scalar or object (one token  *)
(* each, decoded by JsonValue), anything else is prose.                    *)

\* the token for three backticks
Fence == "<fence>"

Alex == << "A", "l", "e", "x" >>
Sam == << "S", "a", "m" >>
Bob == << "B", "o", "b" >>

\* a parsed JSON value as a script element: a dict with some of the keys
\* "speaker" and "text", or something that is not a dict
PyDict(keys, speaker, text) ==
    [isdict |-> TRUE, has |-> keys, speaker |-> speaker, text |-> text]
PyOther == [isdict |-> FALSE, has |-> {}, speaker |-> EmptyStr, text |-> EmptyStr]

Line(speaker, text) == PyDict({ "speaker", "text" }, speaker, text)

JsonScalars == { "ALEX", "SAM", "BOB", "NOSPEAKER", "NOTEXT", "NUMBER" }

JsonValue(tok) ==
    CASE tok = "ALEX" -> Line(Alex, << "Hi Sam!" >>)    \* {"speaker":"Alex","text":"Hi Sam!"}
      [] tok = "SAM" -> Line(Sam, << "Hi Alex!" >>)     \* {"speaker":"Sam","text":"Hi Alex!"}
      [] tok = "BOB" -> Line(Bob, << "Hello." >>)       \* {"speaker":"Bob","text":"Hello."}
      [] tok = "NOSPEAKER" -> PyDict({ "text" }, EmptyStr, << "Hm." >>)   \* {"text":"Hm."}
      [] tok = "NOTEXT" -> PyDict({ "speaker" }, Alex, EmptyStr)          \* {"speaker":"Alex"}
      [] OTHER -> PyOther                                                 \* 7

JSONDecodeError == [ok |-> FALSE, islist |-> FALSE, val |-> << >>, next |-> 0]

RECURSIVE SkipWs(_, _)
SkipWs(toks, k) ==
    IF k <= Len(toks) /\ toks[k] \in Whitespace THEN SkipWs(toks, k + 1) ELSE k

RECURSIVE ParseValue(_, _), ParseItems(_, _, _)
\* one JSON value starting at token k: val is the list's elements, or the
\* one element that a scalar or object is
ParseValue(toks, k) ==
    LET j == SkipWs(toks, k)
    IN  IF j > Len(toks) THEN JSONDecodeError
        ELSE IF toks[j] \in JsonScalars
        THEN [ok |-> TRUE, islist |-> FALSE, val |-> << JsonValue(toks[j]) >>, next |-> j + 1]
        ELSE IF toks[j] = "["
        THEN LET j2 == SkipWs(toks, j + 1)
             IN  IF j2 <= Len(toks) /\ toks[j2] = "]"
                 THEN [ok |-> TRUE, islist |-> TRUE, val |-> << >>, next |-> j2 + 1]
                 ELSE ParseItems(toks, j + 1, << >>)
        ELSE JSONDecodeError

ParseItems(toks, k, acc) ==
    LET v == ParseValue(toks, k)
    IN  IF ~v.ok THEN JSONDecodeError
        ELSE LET item == IF v.islist THEN PyOther ELSE v.val[1]
                 j == SkipWs(toks, v.next)
             IN  IF j > Len(toks) THEN JSONDecodeError
                 ELSE IF toks[j] = "," THEN ParseItems(toks, j + 1, Append(acc, item))
                 ELSE IF toks[j] = "]"
                 THEN [ok |-> TRUE, islist |-> TRUE, val |-> Append(acc, item), next |-> j + 1]
                 ELSE JSONDecodeError

\* json.loads: one value, white space around it, nothing else
json_loads(toks) ==
    LET v == ParseValue(toks, 1)
    IN  IF v.ok /\ SkipWs(toks, v.next) > Len(toks) THEN v ELSE JSONDecodeError

\* re.sub(r"^FENCE(?:json)?\s*\n?", "", text) on a text that starts with a fence
StripOpeningFence(toks) ==
    LET a == Tail(toks)
        b == IF a # << >> /\ Head(a) = "json" THEN Tail(a) ELSE a
    IN  lstrip(b)

\* re.sub(r"\n?FENCE\s*$", "", text)
StripClosingFence(toks) ==
    LET r == rstrip(toks)
    IN  IF r # << >> /\ r[Len(r)] = Fence
        THEN LET q == SubSeq(r, 1, Len(r) - 1)
             IN  IF q # << >> /\ q[Len(q)] = "\n" THEN SubSeq(q, 1, Len(q) - 1) ELSE q
        ELSE toks

\* re.search(r"\[.*\]", text, re.DOTALL): from the first "[" to the last "]"
BracketMatch(toks) ==
    LET opens == { k \in 1..Len(toks) : toks[k] = "[" }
        first == CHOOSE k \in opens : \A m \in opens : k <= m
        closes == { k \in 1..Len(toks) : toks[k] = "]" /\ k > first }
        last == CHOOSE k \in closes : \A m \in closes : m <= k
    IN  IF opens = {} \/ closes = {} THEN [found |-> FALSE, group |-> << >>]
        ELSE [found |-> TRUE, group |-> SubSeq(toks, first, last)]

ValueError == [ok |-> FALSE, val |-> << >>]

\* the value of parse_result while _parse_script_json has not been called on its own
NotParsed == [ok |-> FALSE, val |-> << "<not called>" >>]

_parse_script_json(content) ==
    LET t1 == strip(content)
        t2 == IF t1 # << >> /\ Head(t1) = Fence
              THEN StripClosingFence(StripOpeningFence(t1))
              ELSE t1
        direct == json_loads(t2)
        match == BracketMatch(t2)
        inner == json_loads(match.group)
    IN  IF direct.ok /\ direct.islist THEN [ok |-> TRUE, val |-> direct.val]
        ELSE IF match.found /\ inner.ok THEN [ok |-> TRUE, val |-> inner.val]
        ELSE ValueError

_placeholder_script(t) ==
    << Line(Alex, << "Hey Sam, today we're diving into " >> \o t
                  \o << ". I've been really curious about this!" >>),
       Line(Sam, << "Yeah, " >> \o t \o << " is fascinating. Let me break it down for you." >>),
       Line(Alex, << "So what's the most surprising thing people don't know about this?" >>),
       Line(Sam, << "Well, the thing about " >> \o t
                 \o << " that most people miss is how interconnected it is with everyday life. It's not just some abstract concept." >>),
       Line(Alex, << "That's a great point. Can you give me an example?" >>),
       Line(Sam, << "Sure! Think of it this way -- it's like how you don't notice gravity until you trip. The effects are everywhere once you start looking." >>),
       Line(Alex, << "Ha! I love that analogy. What should our listeners take away from this?" >>),
       Line(Sam, << "I'd say the key takeaway is that " >> \o t
                 \o << " matters more than most people realize. Start paying attention and you'll see it everywhere." >>),
       Line(Alex, << "Awesome. Thanks for breaking that down, Sam. Until next time, folks!" >>),
       Line(Sam, << "See you next episode!" >>) >>

\* the LLM service's answer to the chat completion request:
\*   "error"   the request fails or the status is an HTTP error,
\*   "fields"  the body lacks choices[0].message.content,
\*   "content" the body carries the content
LLMReply(kind, content) == [kind |-> kind, content |-> content]

\* generate_script answering an unreadable reply with an empty script
generate_script_empty_on_error(t, brief, tn, key, llm) ==
    IF ~Truthy(key) THEN _placeholder_script(t)
    ELSE IF llm.kind # "content" THEN << >>
    ELSE LET parsed == _parse_script_json(llm.content)
         IN  IF parsed.ok THEN parsed.val ELSE << >>

\* generate_script asking the LLM whether or not the key is set
generate_script_ignores_key(t, brief, tn, key, llm) ==
    IF llm.kind # "content" THEN _placeholder_script(t)
    ELSE LET parsed == _parse_script_json(llm.content)
         IN  IF parsed.ok THEN parsed.val ELSE _placeholder_script(t)

generate_script(t, brief, tn, key, llm) ==
    IF ~Truthy(key) THEN _placeholder_script(t)
    ELSE IF llm.kind # "content" THEN _placeholder_script(t)
    ELSE LET parsed == _parse_script_json(llm.content)
         IN  IF parsed.ok THEN parsed.val ELSE _placeholder_script(t)

----------------------------------------------------------------------------
(* Phase 4: voice *)

ELEVENLABS_VOICE_ALEX == << "21m00Tcm4TlvDq8ikWAM" >>
ELEVENLABS_VOICE_SAM == << "AZnzlk1XvdvUeBnXmlld" >>

Digits == << "0", "1", "2", "3", "4", "5", "6", "7", "8", "9" >>

Digit(d) == Digits[d + 1]

RECURSIVE Decimal(_)
Decimal(n) == IF n < 10 THEN << Digit(n) >> ELSE Append(Decimal(n \div 10), Digit(n % 10))

RECURSIVE ZeroPad(_, _)
ZeroPad(s, width) == IF Len(s) >= width THEN s ELSE ZeroPad(<< "0" >> \o s, width)

\* f"{n:03d}"
format03d(n) == ZeroPad(Decimal(n), 3)

Uppercase == << "A", "B", "C", "D", "E", "F", "G", "H", "I", "J", "K", "L", "M",
                "N", "O", "P", "Q", "R", "S", "T", "U", "V", "W", "X", "Y", "Z" >>
Lowercase == << "a", "b", "c", "d", "e", "f", "g", "h", "i", "j", "k", "l", "m",
                "n", "o", "p", "q", "r", "s", "t", "u", "v", "w", "x", "y", "z" >>

IndexIn(c, alphabet) == CHOOSE k \in 1..Len(alphabet) : alphabet[k] = c

\* str.lower()
lower(s) ==
    [k \in 1..Len(s) |-> IF s[k] \in Range(Uppercase)
                         THEN Lowercase[IndexIn(s[k], Uppercase)]
                         ELSE s[k]]

clips_dir(job) == OUTPUT_DIR \o << job, << "clips" >> >>

\* clips numbered by their position in the returned list
clip_path_by_position(job, n, speaker) ==
    clips_dir(job)
    \o << format03d(Len(clip_paths)) \o << "_" >> \o lower(speaker) \o << ".mp3" >> >>

\* clips_dir / f"{i:03d}_{speaker.lower()}.mp3"
clip_path(job, n, speaker) ==
    clips_dir(job) \o << format03d(n) \o << "_" >> \o lower(speaker) \o << ".mp3" >> >>

\* line 311: Alex's voice for the label "Alex", Sam's voice for any other
voice_id(speaker) ==
    IF speaker = Alex THEN ELEVENLABS_VOICE_ALEX ELSE ELEVENLABS_VOICE_SAM

\* a loop that asks again for a line whose synthesis failed
advance_retrying(n, ok) == IF ok THEN n + 1 ELSE n

\* lines 308 and 339: enumerate goes on to the next line, whether the
\* synthesis succeeded or the handler ran continue
advance(n, ok) == n + 1

\* line["speaker"] and line["text"] (lines 309-310) raise on such an element
RaisesOnAccess(line) == ~line.isdict \/ ~({ "speaker", "text" } \subseteq line.has)

\* milliseconds of speech in the audio the speech service returns
ClipDurations == { 900 }

\* the audio of line n, as the speech service returns it
Speech(n, ms) == << [seg |-> "speech", ms |-> ms, line |-> n] >>

----------------------------------------------------------------------------
(* Phase 5: jingle and assembly *)

\* a loop that polls once more
MaxAttempts_off_by_one == 30 + 1

\* range(30), line 389
MaxAttempts == 30
\* asyncio.sleep(2), line 390
PollInterval == 2

jingle_file(job) == OUTPUT_DIR \o << job, << "jingle.mp3" >> >>
podcast_file(job) == OUTPUT_DIR \o << job, << "podcast.mp3" >> >>

\* milliseconds of music in the audio the music service returns
JingleDurations == { 5000, 10000, 15000 }

Music(ms) == << [seg |-> "jingle", ms |-> ms, line |-> -1] >>

\* the order of Python's str: by code point, a proper prefix first
Ord(c) ==
    CASE c \in Range(Digits) -> 47 + IndexIn(c, Digits)
      [] c \in Range(Uppercase) -> 64 + IndexIn(c, Uppercase)
      [] c = "_" -> 95
      [] c \in Range(Lowercase) -> 96 + IndexIn(c, Lowercase)
      [] c = ".mp3" -> 46
      [] OTHER -> 0

RECURSIVE StrLess(_, _)
StrLess(a, b) ==
    IF b = << >> THEN FALSE
    ELSE IF a = << >> THEN TRUE
    ELSE IF Ord(Head(a)) # Ord(Head(b)) THEN Ord(Head(a)) < Ord(Head(b))
    ELSE StrLess(Tail(a), Tail(b))

\* the order of Path: component by component
RECURSIVE PathLess(_, _)
PathLess(p, q) ==
    IF q = << >> THEN FALSE
    ELSE IF p = << >> THEN TRUE
    ELSE IF Head(p) # Head(q) THEN StrLess(Head(p), Head(q))
    ELSE PathLess(Tail(p), Tail(q))

\* sorted(clip_paths), line 471
sorted(paths) == SortSeq(paths, LAMBDA p, q : PathLess(p, q))

Silence(ms) == << [seg |-> "silence", ms |-> ms, line |-> -1] >>

BellFile == << << "static" >>, << "bell.mp3" >> >>

\* create_bell_chime: the local bell sound if there is one of more than 100
\* bytes (a smaller file holds no audio) that decodes, else 800 ms of sines
create_bell_chime(f) ==
    IF /\ exists(f, BellFile) /\ f[BellFile].kind = "file"
       /\ f[BellFile].audio # << >>
       /\ f[BellFile].audio[1].seg # "noise"
    THEN << [seg |-> "chime", ms |-> f[BellFile].audio[1].ms, line |-> -1] >>
    ELSE << [seg |-> "chime", ms |-> 800, line |-> -1] >>

Min(a, b) == IF a < b THEN a ELSE b

RECURSIVE Duration(_)
Duration(audio) == IF audio = << >> THEN 0 ELSE Head(audio).ms + Duration(Tail(audio))

\* a slice that keeps the whole jingle
Truncate_whole(audio, ms) == audio

\* audio[:ms]
Truncate(audio, ms) == << [audio[1] EXCEPT !.ms = Min(audio[1].ms, ms)] >>

RECURSIVE Conversation_gaps_between(_, _)
\* a conversation with the gap between the clips only, none after the last
Conversation_gaps_between(f, paths) ==
    IF paths = << >> THEN << >>
    ELSE IF Len(paths) = 1 THEN f[Head(paths)].audio
    ELSE f[Head(paths)].audio \o Silence(400) \o Conversation_gaps_between(f, Tail(paths))

RECURSIVE Conversation(_, _)
\* lines 469-473: each clip followed by the 400 ms gap
Conversation(f, paths) ==
    IF paths = << >> THEN << >>
    ELSE f[Head(paths)].audio \o Silence(400) \o Conversation(f, Tail(paths))

\* lines 467-497: the intro, the conversation and the outro of the master
master_audio(f, clips, jingle) ==
         LET podcast == Conversation(f, sorted(clips))
             bell == create_bell_chime(f)
             with_jingle == jingle # None /\ exists(f, jingle)
             music == f[jingle].audio
             intro_section ==
                 IF with_jingle
                 THEN Truncate(music, 12000) \o Silence(300) \o bell \o Silence(800)
                 ELSE bell \o Silence(1000)
             outro_section ==
                 IF with_jingle
                 THEN Silence(500) \o bell \o Silence(300) \o Truncate(music, 8000)
                 ELSE Silence(800) \o bell
         IN  intro_section \o podcast \o outro_section

\* stitch_podcast returning early on an empty clip list without exporting
stitch_podcast_no_placeholder(f, clips, jingle, job) ==
    IF clips = << >>
    THEN f
    ELSE write(f, podcast_file(job), master_audio(f, clips, jingle))

\* stitch_podcast framing whatever it is given, an empty clip list too
stitch_podcast_always_frames(f, clips, jingle, job) ==
    write(f, podcast_file(job), master_audio(f, clips, jingle))

\* stitch_podcast as a whole: the file system once it has exported the master
stitch_podcast(f, clips, jingle, job) ==
    IF clips = << >>
    THEN write(f, podcast_file(job), Silence(1000))
    ELSE write(f, podcast_file(job), master_audio(f, clips, jingle))

\* generate_jingle letting the exception escape to generate_podcast
jingle_except_escapes == [pc |-> "failed", jingle_path |-> None]

\* lines 424-426: an exception inside generate_jingle ends it with None
jingle_except == [pc |-> "stitch", jingle_path |-> None]

----------------------------------------------------------------------------
(* What the services may answer *)

\* the arrays of up to MaxScriptLen objects, and a few of other elements
Arrays ==
    UNION { [1..n -> { "ALEX", "SAM", "NOSPEAKER" }] : n \in 0..MaxScriptLen }
    \cup { << "BOB" >>, << "ALEX", "BOB" >>, << "NOTEXT" >>, << "SAM", "NUMBER" >> }

RECURSIVE Join(_)
Join(elems) ==
    IF Len(elems) <= 1 THEN elems
    ELSE << Head(elems), ",", " " >> \o Join(Tail(elems))

ArrayText(elems) == << "[" >> \o Join(elems) \o << "]" >>

\* contents json.loads cannot read and that hold no array to fall back on
UnparsableContents ==
    { << >>,
      << "Sorry, I cannot help with that." >>,
      << "[", "ALEX", "," >>,
      << "ALEX" >>,
      << "See", " ", "[", "NUMBER", "]", ":", " ", "[", "ALEX", "]" >> }

ParsableContents ==
    { << "[", "[", "ALEX", "]", "]" >> }
    \cup
    UNION { { ArrayText(a),
              << "\n" >> \o ArrayText(a) \o << " " >>,
              << Fence, "json", "\n" >> \o ArrayText(a) \o << "\n", Fence >>,
              << Fence, "\n" >> \o ArrayText(a) \o << Fence, "\n" >>,
              << "Here is the script:", "\n" >> \o ArrayText(a) } : a \in Arrays }

LLMReplies ==
    { LLMReply("error", << >>), LLMReply("fields", << >>) }
    \cup { LLMReply("content", c) : c \in UnparsableContents \cup ParsableContents }

\* what the music service answers to one status poll:
\*   "error" the request fails; otherwise the status it reports, whether the
\*   body carries file.download_url, and how the download then goes
StatusReplies ==
    { [kind |-> "error", status |-> "", has_url |-> FALSE, download |-> "none", ms |-> 0] }
    \cup { [kind |-> "status", status |-> st, has_url |-> FALSE, download |-> "none", ms |-> 0] :
             st \in { "Success", "Failed", "Processing", "Queueing" } }
    \cup { [kind |-> "status", status |-> "Success", has_url |-> TRUE, download |-> "error", ms |-> 0] }
    \cup { [kind |-> "status", status |-> "Success", has_url |-> TRUE, download |-> "ok", ms |-> ms] :
             ms \in JingleDurations }

SubmitReplies == { "error", "no_task_id", "task" }

----------------------------------------------------------------------------
(* generate_podcast: the order of the phases, lines 539-558 *)

\* an orchestrator that asks for the jingle before the voice clips
NextPhase_jingle_first(phase) ==
    CASE phase = "research" -> "script"
      [] phase = "script" -> "jingle"
      [] phase = "jingle" -> "voice"
      [] phase = "voice" -> "stitch"
      [] phase = "stitch" -> "respond"
      [] OTHER -> "done"

NextPhase(phase) ==
    CASE phase = "research" -> "script"
      [] phase = "script" -> "voice"
      [] phase = "voice" -> "jingle"
      [] phase = "jingle" -> "stitch"
      [] phase = "stitch" -> "respond"
      [] OTHER -> "done"

Init ==
    /\ MINIMAX_API_KEY \in { EmptyStr, << "mm-key" >> }
    /\ MINIMAX_GROUP_ID \in { EmptyStr, << "group-1" >> }
    /\ ELEVENLABS_API_KEY \in { EmptyStr, << "xi-key" >> }
    /\ pc = "idle"
    /\ topic = EmptyStr /\ url = EmptyStr /\ tone = EmptyStr
    /\ job_id = None
    /\ research_brief = EmptyStr
    /\ script = << >>
    /\ clip_paths = << >>
    /\ jingle_path = None
    /\ final_path = None
    /\ response = NoResponse
    /\ fs = [p \in { OUTPUT_DIR } |-> Dir]
    /\ i = 0 /\ attempt = 0 /\ polls = 0 /\ waited = 0 /\ downloads = 0
    /\ started = << >> /\ active = {}
    /\ lookups = << >> /\ requests = {}
    /\ synth_failed = {}
    /\ llm_fault = "none" /\ jingle_fault = "none"
    /\ tts_requests = << >>
    /\ fail_limit = MaxSynthFailures
    /\ pending_limit = MaxPendingPolls
    /\ lookup_outcome = "none"
    /\ llm_content = EmptyStr /\ parse_result = NotParsed
    /\ jobs = << >>
    /\ last_status = "none"

\* lines 528-537: read the body, reject an empty submission, create the job
Submit(body) ==
    /\ pc = "idle"
    /\ LET raw_topic == Get(body, "topic", EmptyStr)
           raw_url == Get(body, "url", EmptyStr)
           raw_tone == Get(body, "tone", << "casual" >>)
       IN  IF None \in { raw_topic, raw_url, raw_tone }
           THEN \* None.strip() raises AttributeError
                /\ pc' = "failed"
                /\ response' = InternalServerError
                /\ UNCHANGED << topic, url, tone, job_id, fs >>
           ELSE /\ topic' = strip(raw_topic)
                /\ url' = strip(raw_url)
                /\ tone' = strip(raw_tone)
                /\ IF ~Truthy(topic') /\ ~Truthy(url')
                   THEN /\ pc' = "rejected"
                        /\ response' = HTTPException(400, "Provide a 'topic' or 'url'.")
                        /\ UNCHANGED << job_id, fs >>
                   ELSE /\ pc' = "research"
                        /\ \E id \in JobIds :
                              /\ job_id' = id
                              /\ fs' = mkdir(fs, OUTPUT_DIR \o << id >>)
                        /\ UNCHANGED response
    /\ UNCHANGED << MINIMAX_API_KEY, MINIMAX_GROUP_ID, ELEVENLABS_API_KEY,
                    research_brief, script, clip_paths, jingle_path, final_path,
                    i, attempt, polls, waited, downloads, started, active,
                    lookups, requests, synth_failed, llm_fault, jingle_fault,
                    tts_requests, fail_limit, pending_limit,
                    llm_content, parse_result, jobs, lookup_outcome,
                    last_status >>

\* a handler that looks the topic up whenever there is one
lookup_kind_topic_first(t, u) == IF Truthy(t) THEN "topic" ELSE "url"

\* lines 540 and 544: the url, when there is one, decides the lookup
lookup_kind(t, u) == IF Truthy(u) THEN "url" ELSE "topic"

\* which answer of the encyclopedia decided the brief
WikiOutcome(wiki) == IF wiki.search = "hit" THEN wiki.extract ELSE wiki.search

\* lines 539-545
Research ==
    /\ pc = "research"
    /\ IF lookup_kind(topic, url) = "url"
       THEN /\ \E page \in PageReplies :
                  /\ research_brief' = research_url(url, page)
                  /\ lookup_outcome' = page
            /\ topic' = IF ~Truthy(topic) THEN << "Article from " >> \o url ELSE topic
            /\ lookups' = Append(lookups, "url")
       ELSE /\ \E wiki \in WikiReplies :
                  /\ research_brief' = research_topic(topic, wiki)
                  /\ lookup_outcome' = WikiOutcome(wiki)
            /\ topic' = topic
            /\ lookups' = Append(lookups, "topic")
    /\ started' = Append(started, "research")
    /\ pc' = NextPhase("research")
    /\ UNCHANGED << MINIMAX_API_KEY, MINIMAX_GROUP_ID, ELEVENLABS_API_KEY, url,
                    tone, job_id, script, clip_paths, jingle_path, final_path,
                    response, fs, i, attempt, polls, waited, downloads, active,
                    requests, synth_failed, llm_fault, jingle_fault,
                    tts_requests, fail_limit, pending_limit,
                    llm_content, parse_result, jobs, last_status >>

\* line 548
Script ==
    /\ pc = "script"
    /\ \E llm \in LLMReplies :
          /\ script' = generate_script(topic, research_brief, tone, MINIMAX_API_KEY, llm)
          /\ llm_fault' = IF ~Truthy(MINIMAX_API_KEY) THEN "credentials"
                          ELSE IF llm.kind = "error" THEN "transport"
                          ELSE IF llm.kind = "fields" THEN "fields"
                          ELSE IF llm.content \in UnparsableContents THEN "unparsable"
                          ELSE "none"
    /\ requests' = IF Truthy(MINIMAX_API_KEY) THEN requests \cup { "llm" } ELSE requests
    /\ started' = Append(started, "script")
    /\ pc' = NextPhase("script")
    /\ UNCHANGED << MINIMAX_API_KEY, MINIMAX_GROUP_ID, ELEVENLABS_API_KEY, topic,
                    url, tone, job_id, research_brief, clip_paths, jingle_path,
                    final_path, response, fs, i, attempt, polls, waited,
                    downloads, active, lookups, synth_failed, jingle_fault,
                    tts_requests, fail_limit, pending_limit,
                    llm_content, parse_result, jobs, lookup_outcome,
                    last_status >>

\* lines 300-307: generate_voice_clips up to its loop
VoiceStart ==
    /\ pc = "voice"
    /\ fs' = mkdir(fs, clips_dir(job_id))
    /\ started' = Append(started, "voice")
    /\ clip_paths' = << >>
    /\ i' = 0
    /\ IF ~Truthy(ELEVENLABS_API_KEY) \/ script = << >>
       THEN pc' = NextPhase("voice") /\ active' = active
       ELSE pc' = "voice_loop" /\ active' = active \cup { "voice" }
    /\ UNCHANGED << MINIMAX_API_KEY, MINIMAX_GROUP_ID, ELEVENLABS_API_KEY, topic,
                    url, tone, job_id, research_brief, script, jingle_path,
                    final_path, response, attempt, polls, waited, downloads,
                    lookups, requests, synth_failed, llm_fault, jingle_fault,
                    tts_requests, fail_limit, pending_limit,
                    llm_content, parse_result, jobs, lookup_outcome,
                    last_status >>

\* lines 308-339: one iteration of the loop, and the return after the last
VoiceLine ==
    /\ pc = "voice_loop"
    /\ LET line == script[i + 1]
       IN  IF RaisesOnAccess(line)
           THEN \* KeyError or TypeError outside the try block
                /\ pc' = "failed"
                /\ response' = InternalServerError
                /\ active' = {}
                /\ UNCHANGED << fs, clip_paths, i, requests, synth_failed,
                                tts_requests >>
           ELSE /\ \E ok \in BOOLEAN, ms \in ClipDurations :
                      /\ ok \/ Cardinality(synth_failed) < fail_limit
                      /\ IF ok
                         THEN /\ fs' = write(fs, clip_path(job_id, i, line.speaker), Speech(i, ms))
                              /\ clip_paths' = Append(clip_paths, clip_path(job_id, i, line.speaker))
                              /\ UNCHANGED synth_failed
                         ELSE /\ synth_failed' = synth_failed \cup { i }
                              /\ UNCHANGED << fs, clip_paths >>
                      /\ i' = advance(i, ok)
                /\ requests' = requests \cup { "tts" }
                /\ tts_requests' = Append(tts_requests,
                                          [line |-> i, voice |-> voice_id(line.speaker)])
                /\ IF i' = Len(script)
                   THEN pc' = NextPhase("voice") /\ active' = active \ { "voice" }
                   ELSE pc' = pc /\ active' = active
                /\ UNCHANGED response
    /\ UNCHANGED << MINIMAX_API_KEY, MINIMAX_GROUP_ID, ELEVENLABS_API_KEY, topic,
                    url, tone, job_id, research_brief, script, jingle_path,
                    final_path, attempt, polls, waited, downloads, started,
                    lookups, llm_fault, jingle_fault, fail_limit, pending_limit,
                    llm_content, parse_result, jobs, lookup_outcome,
                    last_status >>

\* lines 354-386: the credentials check and the submit request
JingleSubmit ==
    /\ pc = "jingle"
    /\ started' = Append(started, "jingle")
    /\ attempt' = 0
    /\ IF ~Truthy(MINIMAX_API_KEY) \/ ~Truthy(MINIMAX_GROUP_ID)
       THEN /\ jingle_path' = None
            /\ pc' = NextPhase("jingle")
            /\ UNCHANGED << requests, jingle_fault, active >>
       ELSE /\ requests' = requests \cup { "music" }
            /\ \E reply \in SubmitReplies :
                  IF reply = "task"
                  THEN /\ pc' = "jingle_sleep"
                       /\ active' = active \cup { "jingle" }
                       /\ UNCHANGED << jingle_path, jingle_fault >>
                  ELSE IF reply = "error"
                  THEN /\ jingle_path' = jingle_except.jingle_path
                       /\ jingle_fault' = "submit"
                       /\ pc' = jingle_except.pc
                       /\ active' = active
                  ELSE /\ jingle_path' = None
                       /\ jingle_fault' = jingle_fault
                       /\ pc' = NextPhase("jingle")
                       /\ active' = active
    /\ UNCHANGED << MINIMAX_API_KEY, MINIMAX_GROUP_ID, ELEVENLABS_API_KEY, topic,
                    url, tone, job_id, research_brief, script, clip_paths,
                    final_path, response, fs, i, polls, waited, downloads,
                    lookups, synth_failed, llm_fault, tts_requests, fail_limit,
                    pending_limit,
                    llm_content, parse_result, jobs, lookup_outcome,
                    last_status >>

\* a poll handler that fetches whatever a successful status names
wants_download_any_success(reply) == reply.kind = "status" /\ reply.status = "Success"

\* a loop without the branch for the failure status
is_pending_without_failed(reply) == reply.kind = "status" /\ reply.status # "Success"

\* lines 402 and 417: any status but Success and Failed lets the loop go on
is_pending(reply) ==
    reply.kind = "status" /\ reply.status \notin { "Success", "Failed" }

\* line 399: the status of the answer, "error" when the request raised and
\* "pending" for every status that is neither Success nor Failed
reported_status(reply) ==
    IF reply.kind = "error" THEN "error"
    ELSE IF reply.status \in { "Success", "Failed" } THEN reply.status
    ELSE "pending"

\* lines 402-409: the download is issued on the success status with a download_url
wants_download(reply) ==
    reply.kind = "status" /\ reply.status = "Success" /\ reply.has_url

\* line 390
JingleSleep ==
    /\ pc = "jingle_sleep"
    /\ waited' = waited + PollInterval
    /\ pc' = "jingle_poll"
    /\ UNCHANGED << MINIMAX_API_KEY, MINIMAX_GROUP_ID, ELEVENLABS_API_KEY, topic,
                    url, tone, job_id, research_brief, script, clip_paths,
                    jingle_path, final_path, response, fs, i, attempt, polls,
                    downloads, started, active, lookups, requests, synth_failed,
                    llm_fault, jingle_fault, tts_requests, fail_limit,
                    pending_limit,
                    llm_content, parse_result, jobs, lookup_outcome,
                    last_status >>

\* lines 392-426: one status poll and what follows from its answer
JinglePoll ==
    /\ pc = "jingle_poll"
    /\ polls' = polls + 1
    /\ \E reply \in StatusReplies :
       /\ last_status' = reported_status(reply)
       /\ IF is_pending(reply)
          THEN /\ attempt < pending_limit
               /\ attempt' = attempt + 1
               /\ IF attempt' = MaxAttempts
                  THEN pc' = NextPhase("jingle") /\ active' = active \ { "jingle" }
                  ELSE pc' = "jingle_sleep" /\ active' = active
               /\ UNCHANGED << jingle_path, jingle_fault, downloads, fs >>
          ELSE /\ active' = active \ { "jingle" }
               /\ attempt' = attempt
               /\ downloads' = IF wants_download(reply) THEN downloads + 1 ELSE downloads
               /\ IF reply.kind = "error" \/ reply.download = "error"
                  THEN /\ jingle_fault' = IF reply.kind = "error" THEN "poll" ELSE "download"
                       /\ jingle_path' = jingle_except.jingle_path
                       /\ pc' = jingle_except.pc
                       /\ fs' = fs
                  ELSE /\ jingle_fault' = jingle_fault
                       /\ pc' = NextPhase("jingle")
                       /\ IF reply.download = "ok"
                          THEN /\ fs' = write(fs, jingle_file(job_id), Music(reply.ms))
                               /\ jingle_path' = jingle_file(job_id)
                          ELSE /\ fs' = fs
                               /\ jingle_path' = None
    /\ UNCHANGED << MINIMAX_API_KEY, MINIMAX_GROUP_ID, ELEVENLABS_API_KEY, topic,
                    url, tone, job_id, research_brief, script, clip_paths,
                    final_path, response, i, waited, started, lookups, requests,
                    synth_failed, llm_fault, tts_requests, fail_limit,
                    pending_limit,
                    llm_content, parse_result, jobs, lookup_outcome >>

\* line 555; the counters and the last status of the finished generate_jingle
\* call are dropped
Stitch ==
    /\ pc = "stitch"
    /\ started' = Append(started, "assembly")
    /\ final_path' = podcast_file(job_id)
    /\ fs' = stitch_podcast(fs, clip_paths, jingle_path, job_id)
    /\ attempt' = 0 /\ polls' = 0 /\ waited' = 0 /\ downloads' = 0
    /\ last_status' = "none"
    /\ pc' = NextPhase("stitch")
    /\ UNCHANGED << MINIMAX_API_KEY, MINIMAX_GROUP_ID, ELEVENLABS_API_KEY, topic,
                    url, tone, job_id, research_brief, script, clip_paths,
                    jingle_path, response, i, active, lookups, requests,
                    synth_failed, llm_fault, jingle_fault, tts_requests,
                    fail_limit, pending_limit,
                    llm_content, parse_result, jobs, lookup_outcome >>

RECURSIVE str_len(_)
\* len() of a str: the lookup's extract and excerpt stand for long texts
str_len(s) ==
    IF s = << >> THEN 0
    ELSE (IF Head(s) \in { "<extract>", "<excerpt>" } THEN 3000 ELSE 1) + str_len(Tail(s))

\* a reference given only when the voice stage produced clips
audio_url_when_clips ==
    IF clip_paths # << >>
    THEN << "/output/" >> \o job_id \o << "/podcast.mp3" >>
    ELSE None

\* line 558: f"/output/{job_id}/podcast.mp3" if final_path.exists() else None
audio_url ==
    IF exists(fs, final_path)
    THEN << "/output/" >> \o job_id \o << "/podcast.mp3" >>
    ELSE None

\* a payload whose has_audio tells whether the master exists
Payload_has_audio_from_master ==
    [ job_id |-> job_id,
      topic |-> topic,
      tone |-> tone,
      script |-> script,
      research_brief |-> IF str_len(research_brief) > 500
                         THEN << "<first 500 characters>", "..." >>
                         ELSE research_brief,
      audio_url |-> audio_url,
      has_audio |-> exists(fs, final_path),
      clip_count |-> Len(clip_paths) ]

\* lines 560-569
Payload ==
    [ job_id |-> job_id,
      topic |-> topic,
      tone |-> tone,
      script |-> script,
      research_brief |-> IF str_len(research_brief) > 500
                         THEN << "<first 500 characters>", "..." >>
                         ELSE research_brief,
      audio_url |-> audio_url,
      has_audio |-> clip_paths # << >>,
      clip_count |-> Len(clip_paths) ]

Respond ==
    /\ pc = "respond"
    /\ response' = [status |-> 200, body |-> Payload]
    /\ pc' = NextPhase("respond")
    /\ UNCHANGED << MINIMAX_API_KEY, MINIMAX_GROUP_ID, ELEVENLABS_API_KEY, topic,
                    url, tone, job_id, research_brief, script, clip_paths,
                    jingle_path, final_path, fs, i, attempt, polls, waited,
                    downloads, started, active, lookups, requests, synth_failed,
                    llm_fault, jingle_fault, tts_requests, fail_limit,
                    pending_limit,
                    llm_content, parse_result, jobs, lookup_outcome,
                    last_status >>

Next ==
    \/ \E body \in Bodies : Submit(body)
    \/ Research
    \/ Script
    \/ VoiceStart
    \/ VoiceLine
    \/ JingleSubmit
    \/ JingleSleep
    \/ JinglePoll
    \/ Stitch
    \/ Respond

Spec == Init /\ [][Next]_vars

----------------------------------------------------------------------------
(* generate_jingle on its own: a job submitted with the topic "bh" and no   *)
(* speech credentials, at the point where generate_podcast calls            *)
(* generate_jingle (line 554), with a music service that may answer every   *)
(* poll as pending.                                                         *)

InitJingle ==
    /\ MINIMAX_API_KEY \in { EmptyStr, << "mm-key" >> }
    /\ MINIMAX_GROUP_ID \in { EmptyStr, << "group-1" >> }
    /\ ELEVENLABS_API_KEY = EmptyStr
    /\ pc = "jingle"
    /\ topic = << "b", "h" >> /\ url = EmptyStr /\ tone = << "casual" >>
    /\ job_id \in JobIds
    /\ research_brief = research_topic(topic, [search |-> "no_titles", extract |-> "empty"])
    /\ script = _placeholder_script(topic)
    /\ clip_paths = << >>
    /\ jingle_path = None
    /\ final_path = None
    /\ response = NoResponse
    /\ fs = mkdir([p \in { OUTPUT_DIR } |-> Dir], clips_dir(job_id))
    /\ i = 0 /\ attempt = 0 /\ polls = 0 /\ waited = 0 /\ downloads = 0
    /\ started = << "research", "script", "voice" >> /\ active = {}
    /\ lookups = << "topic" >>
    /\ requests = IF Truthy(MINIMAX_API_KEY) THEN { "llm" } ELSE {}
    /\ synth_failed = {}
    /\ llm_fault = IF Truthy(MINIMAX_API_KEY) THEN "transport" ELSE "credentials"
    /\ jingle_fault = "none"
    /\ tts_requests = << >>
    /\ fail_limit = MaxSynthFailures
    /\ pending_limit = MaxAttempts
    /\ lookup_outcome = "no_titles"
    /\ llm_content = EmptyStr /\ parse_result = NotParsed
    /\ jobs = << >>
    /\ last_status = "none"

NextJingle ==
    \/ JingleSubmit
    \/ JingleSleep
    \/ JinglePoll
    \/ Stitch
    \/ Respond

SpecJingle == InitJingle /\ [][NextJingle]_vars

----------------------------------------------------------------------------
(* The voice loop near the thousandth line: the LLM returned a script of    *)
(* LongScriptLen well-formed lines, every synthesis so far has failed, and  *)
(* the last OpenLines lines are still to come.  No music group id is set.   *)

LongScript ==
    [k \in 1..LongScriptLen |->
        Line(IF k % 2 = 1 THEN Alex ELSE Sam, << "Hi Sam!" >>)]

InitOrder ==
    /\ MINIMAX_API_KEY = << "mm-key" >>
    /\ MINIMAX_GROUP_ID = EmptyStr
    /\ ELEVENLABS_API_KEY = << "xi-key" >>
    /\ pc = "voice_loop"
    /\ topic = << "b", "h" >> /\ url = EmptyStr /\ tone = << "casual" >>
    /\ job_id \in JobIds
    /\ research_brief = research_topic(topic, [search |-> "no_titles", extract |-> "empty"])
    /\ script = LongScript
    /\ clip_paths = << >>
    /\ jingle_path = None
    /\ final_path = None
    /\ response = NoResponse
    /\ fs = mkdir([p \in { OUTPUT_DIR } |-> Dir], clips_dir(job_id))
    /\ i = LongScriptLen - OpenLines
    /\ attempt = 0 /\ polls = 0 /\ waited = 0 /\ downloads = 0
    /\ started = << "research", "script", "voice" >> /\ active = { "voice" }
    /\ lookups = << "topic" >>
    /\ requests = { "llm", "tts" }
    /\ synth_failed = 0..(i - 1)
    /\ llm_fault = "none"
    /\ jingle_fault = "none"
    /\ tts_requests = [k \in 1..i |-> [line |-> k - 1, voice |-> voice_id(script[k].speaker)]]
    /\ fail_limit = LongScriptLen
    /\ pending_limit = MaxPendingPolls
    /\ lookup_outcome = "no_titles"
    /\ llm_content = EmptyStr /\ parse_result = NotParsed
    /\ jobs = << >>
    /\ last_status = "none"

NextOrder ==
    \/ VoiceLine
    \/ JingleSubmit
    \/ Stitch
    \/ Respond

SpecOrder == InitOrder /\ [][NextOrder]_vars

----------------------------------------------------------------------------
(* stitch_podcast on its own: a job at the point where generate_podcast     *)
(* calls stitch_podcast (line 555).  The script had MaxClips lines, any     *)
(* subset of them was synthesized with clips of various lengths, the        *)
(* jingle is absent or of a length around the two truncation points, and    *)
(* static/bell.mp3 is missing, too small, undecodable or a bell sound.      *)

StitchClipDurations == { 900, 2500 }
StitchJingleDurations == JingleDurations \cup { 8000, 12000 }

\* what static/bell.mp3 may hold
BellSounds ==
    { << >>,
      << [seg |-> "noise", ms |-> 0, line |-> -1] >>,
      << [seg |-> "chime", ms |-> 1200, line |-> -1] >> }

StitchScript ==
    [k \in 1..MaxClips |-> Line(IF k % 2 = 1 THEN Alex ELSE Sam, << "Hi Sam!" >>)]

RECURSIVE WriteClips(_, _, _, _)
\* the file system after the voice loop wrote the clips of the lines idxs
WriteClips(f, job, idxs, dur) ==
    IF idxs = << >> THEN f
    ELSE WriteClips(write(f, clip_path(job, Head(idxs), StitchScript[Head(idxs) + 1].speaker),
                          Speech(Head(idxs), dur[Head(idxs)])),
                    job, Tail(idxs), dur)

InitStitch ==
    /\ MINIMAX_API_KEY = << "mm-key" >>
    /\ MINIMAX_GROUP_ID = << "group-1" >>
    /\ ELEVENLABS_API_KEY = << "xi-key" >>
    /\ pc = "stitch"
    /\ topic = << "b", "h" >> /\ url = EmptyStr /\ tone = << "casual" >>
    /\ job_id \in JobIds
    /\ research_brief = research_topic(topic, [search |-> "no_titles", extract |-> "empty"])
    /\ script = StitchScript
    /\ final_path = None
    /\ response = NoResponse
    /\ \E survivors \in SUBSET (0..(MaxClips - 1)) :
       \E dur \in [survivors -> StitchClipDurations] :
       \E jingle \in { 0 } \cup StitchJingleDurations :
       \E has_bell \in BOOLEAN, bell \in BellSounds :
          LET idxs == SelectSeq([k \in 1..MaxClips |-> k - 1], LAMBDA n : n \in survivors)
              f0 == mkdir([p \in { OUTPUT_DIR } |-> Dir], clips_dir(job_id))
              f1 == WriteClips(f0, job_id, idxs, dur)
              f2 == IF jingle = 0 THEN f1 ELSE write(f1, jingle_file(job_id), Music(jingle))
              f3 == IF ~has_bell THEN f2 ELSE write(mkdir(f2, << << "static" >> >>), BellFile, bell)
          IN  /\ clip_paths = [k \in 1..Len(idxs) |->
                                  clip_path(job_id, idxs[k], script[idxs[k] + 1].speaker)]
              /\ synth_failed = (0..(MaxClips - 1)) \ survivors
              /\ jingle_path = IF jingle = 0 THEN None ELSE jingle_file(job_id)
              /\ downloads = IF jingle = 0 THEN 0 ELSE 1
              /\ fs = f3
    /\ i = MaxClips
    /\ attempt = 0 /\ polls = 1 /\ waited = PollInterval
    /\ started = << "research", "script", "voice", "jingle" >> /\ active = {}
    /\ lookups = << "topic" >>
    /\ requests = { "llm", "tts", "music" }
    /\ llm_fault = "none"
    /\ jingle_fault = "none"
    /\ tts_requests = [k \in 1..MaxClips |-> [line |-> k - 1, voice |-> voice_id(script[k].speaker)]]
    /\ fail_limit = MaxClips
    /\ pending_limit = MaxPendingPolls
    /\ lookup_outcome = "no_titles"
    /\ llm_content = EmptyStr /\ parse_result = NotParsed
    /\ jobs = << >>
    /\ last_status = IF jingle_path = None THEN "Failed" ELSE "Success"

NextStitch ==
    \/ Stitch
    \/ Respond

SpecStitch == InitStitch /\ [][NextStitch]_vars

----------------------------------------------------------------------------
(* _parse_script_json on its own: generate_script has the content of the    *)
(* LLM's reply (line 240) and calls _parse_script_json on it (line 241).    *)

\* prose the LLM may put before the array; "[", "draft", "]" is the text [draft]
LeadingProse ==
    { << "Here is the script:", "\n" >>,
      << "Here", " ", "[", "draft", "]", ":", "\n" >> }

\* the array alone, padded, fenced, after prose, before prose
Wrappings(a) ==
    { ArrayText(a),
      << "\n" >> \o ArrayText(a) \o << " " >>,
      << Fence, "json", "\n" >> \o ArrayText(a) \o << "\n", Fence >>,
      << Fence, "\n" >> \o ArrayText(a) \o << Fence, "\n" >>,
      << Fence, "json", "\n" >> \o ArrayText(a) \o << "\n", Fence, "\n", "Enjoy!" >>,
      ArrayText(a) \o << "\n", "Enjoy!" >> }
    \cup { prose \o ArrayText(a) : prose \in LeadingProse }

ParseInputs == UnparsableContents \cup UNION { Wrappings(a) : a \in Arrays }

InitParse ==
    /\ MINIMAX_API_KEY = << "mm-key" >>
    /\ MINIMAX_GROUP_ID \in { EmptyStr, << "group-1" >> }
    /\ ELEVENLABS_API_KEY \in { EmptyStr, << "xi-key" >> }
    /\ pc = "parse"
    /\ topic = << "b", "h" >> /\ url = EmptyStr /\ tone = << "casual" >>
    /\ job_id \in JobIds
    /\ research_brief = research_topic(topic, [search |-> "no_titles", extract |-> "empty"])
    /\ script = << >>
    /\ clip_paths = << >>
    /\ jingle_path = None
    /\ final_path = None
    /\ response = NoResponse
    /\ fs = mkdir([p \in { OUTPUT_DIR } |-> Dir], OUTPUT_DIR \o << job_id >>)
    /\ i = 0 /\ attempt = 0 /\ polls = 0 /\ waited = 0 /\ downloads = 0
    /\ started = << "research" >> /\ active = {}
    /\ lookups = << "topic" >>
    /\ requests = { "llm" }
    /\ synth_failed = {}
    /\ llm_fault = "none" /\ jingle_fault = "none"
    /\ tts_requests = << >>
    /\ fail_limit = MaxSynthFailures
    /\ pending_limit = MaxPendingPolls
    /\ lookup_outcome = "no_titles"
    /\ llm_content \in ParseInputs
    /\ parse_result = NotParsed
    /\ jobs = << >>
    /\ last_status = "none"

\* line 241
ParseReply ==
    /\ pc = "parse"
    /\ parse_result' = _parse_script_json(llm_content)
    /\ pc' = "parsed"
    /\ UNCHANGED << MINIMAX_API_KEY, MINIMAX_GROUP_ID, ELEVENLABS_API_KEY, topic,
                    url, tone, job_id, research_brief, script, clip_paths,
                    jingle_path, final_path, response, fs, i, attempt, polls,
                    waited, downloads, started, active, lookups, requests,
                    synth_failed, llm_fault, jingle_fault, tts_requests,
                    fail_limit, pending_limit, lookup_outcome, llm_content, jobs,
                    last_status >>

NextParse == ParseReply

SpecParse == InitParse /\ [][NextParse]_vars

----------------------------------------------------------------------------
(* Two requests served concurrently: the handler is a coroutine, so the     *)
(* second request may be accepted, and each job may take its next step,     *)
(* wherever the other job waits at an await.  Both jobs share the file      *)
(* system.  Every job has a well-formed script of two lines; all            *)
(* credentials are set.                                                     *)

Clients == { 1, 2 }

\* str(uuid.uuid4())[:8]: eight hexadecimal digits, drawn anew for every request
ConcurrentJobIds == JobIds \cup { << "a81b07d4" >> }

TwoJobScript == << Line(Alex, << "Hi Sam!" >>), Line(Sam, << "Hi Alex!" >>) >>

IdleJob ==
    [pc |-> "idle", job_id |-> None, i |-> 0, clip_paths |-> << >>,
     jingle_path |-> None, written |-> {}]

\* the variables of the single job, which these two requests leave alone
single_job_vars ==
    << MINIMAX_API_KEY, MINIMAX_GROUP_ID, ELEVENLABS_API_KEY, pc, topic, url,
       tone, job_id, research_brief, script, clip_paths, jingle_path,
       final_path, response, i, attempt, polls, waited, downloads, started,
       active, lookups, requests, synth_failed, llm_fault, jingle_fault,
       tts_requests, fail_limit, pending_limit, lookup_outcome, llm_content,
       parse_result, last_status >>

InitTwo ==
    /\ MINIMAX_API_KEY = << "mm-key" >>
    /\ MINIMAX_GROUP_ID = << "group-1" >>
    /\ ELEVENLABS_API_KEY = << "xi-key" >>
    /\ pc = "idle"
    /\ topic = EmptyStr /\ url = EmptyStr /\ tone = EmptyStr
    /\ job_id = None
    /\ research_brief = EmptyStr
    /\ script = << >>
    /\ clip_paths = << >>
    /\ jingle_path = None
    /\ final_path = None
    /\ response = NoResponse
    /\ fs = [p \in { OUTPUT_DIR } |-> Dir]
    /\ i = 0 /\ attempt = 0 /\ polls = 0 /\ waited = 0 /\ downloads = 0
    /\ started = << >> /\ active = {}
    /\ lookups = << >> /\ requests = {}
    /\ synth_failed = {}
    /\ llm_fault = "none" /\ jingle_fault = "none"
    /\ tts_requests = << >>
    /\ fail_limit = MaxSynthFailures
    /\ pending_limit = MaxPendingPolls
    /\ lookup_outcome = "none"
    /\ llm_content = EmptyStr /\ parse_result = NotParsed
    /\ jobs = [r \in Clients |-> IdleJob]
    /\ last_status = "none"

\* lines 528-537, for a request that arrives before the other job is done
Accept(r) ==
    /\ jobs[r].pc = "idle"
    /\ \A o \in Clients \ { r } : jobs[o].pc # "done"
    /\ \E id \in ConcurrentJobIds :
          /\ fs' = mkdir(fs, OUTPUT_DIR \o << id >>)
          /\ jobs' = [jobs EXCEPT ![r].pc = "research",
                                   ![r].job_id = id,
                                   ![r].written = { OUTPUT_DIR \o << id >> }]
    /\ UNCHANGED single_job_vars

\* lines 539-548: research and script, which touch no file
Prepare(r) ==
    /\ jobs[r].pc = "research"
    /\ jobs' = [jobs EXCEPT ![r].pc = "voice"]
    /\ UNCHANGED << fs, single_job_vars >>

\* lines 300-307
VoiceStartOf(r) ==
    /\ jobs[r].pc = "voice"
    /\ fs' = mkdir(fs, clips_dir(jobs[r].job_id))
    /\ jobs' = [jobs EXCEPT ![r].pc = "voice_loop",
                             ![r].i = 0,
                             ![r].clip_paths = << >>,
                             ![r].written = @ \cup { clips_dir(jobs[r].job_id) }]
    /\ UNCHANGED single_job_vars

\* lines 308-342
VoiceLineOf(r) ==
    /\ jobs[r].pc = "voice_loop"
    /\ LET n == jobs[r].i
           path == clip_path(jobs[r].job_id, n, TwoJobScript[n + 1].speaker)
           next_pc == IF n + 1 = Len(TwoJobScript) THEN "jingle" ELSE "voice_loop"
       IN  \E ok \in BOOLEAN, ms \in ClipDurations :
              IF ok
              THEN /\ fs' = write(fs, path, Speech(n, ms))
                   /\ jobs' = [jobs EXCEPT ![r].i = n + 1,
                                            ![r].pc = next_pc,
                                            ![r].clip_paths = Append(@, path),
                                            ![r].written = @ \cup { path }]
              ELSE /\ fs' = fs
                   /\ jobs' = [jobs EXCEPT ![r].i = n + 1, ![r].pc = next_pc]
    /\ UNCHANGED single_job_vars

\* lines 349-426, from the submit request to the return
JingleOf(r) ==
    /\ jobs[r].pc = "jingle"
    /\ \E saved \in BOOLEAN, ms \in JingleDurations :
          IF saved
          THEN /\ fs' = write(fs, jingle_file(jobs[r].job_id), Music(ms))
               /\ jobs' = [jobs EXCEPT ![r].pc = "stitch",
                                        ![r].jingle_path = jingle_file(jobs[r].job_id),
                                        ![r].written = @ \cup { jingle_file(jobs[r].job_id) }]
          ELSE /\ fs' = fs
               /\ jobs' = [jobs EXCEPT ![r].pc = "stitch", ![r].jingle_path = None]
    /\ UNCHANGED single_job_vars

\* lines 555-569
StitchOf(r) ==
    /\ jobs[r].pc = "stitch"
    /\ fs' = stitch_podcast(fs, jobs[r].clip_paths, jobs[r].jingle_path, jobs[r].job_id)
    /\ jobs' = [jobs EXCEPT ![r].pc = "done",
                             ![r].written = @ \cup { podcast_file(jobs[r].job_id) }]
    /\ UNCHANGED single_job_vars

NextTwo ==
    \/ \E r \in Clients : Accept(r)
    \/ \E r \in Clients : Prepare(r)
    \/ \E r \in Clients : VoiceStartOf(r)
    \/ \E r \in Clients : VoiceLineOf(r)
    \/ \E r \in Clients : JingleOf(r)
    \/ \E r \in Clients : StitchOf(r)

SpecTwo == InitTwo /\ [][NextTwo]_vars

----------------------------------------------------------------------------
(* Properties *)

AfterScript == { "voice", "voice_loop", "jingle", "jingle_sleep", "jingle_poll",
                 "stitch", "respond", "done" }
AfterVoice == { "jingle", "jingle_sleep", "jingle_poll", "stitch", "respond", "done" }
AfterAssembly == { "respond", "done" }

\* C1: a job accepted at submission is never aborted: whatever the stages
\* return, generate_podcast does not end in an unhandled exception.
C1_AcceptedJobNeverAborts == job_id # None => pc # "failed"

\* C2: once the pipeline has completed for a job, podcast.mp3 exists under the
\* job's directory; with zero clips it is the 1000 ms silent placeholder.
C2_MasterExists ==
    pc \in AfterAssembly =>
        /\ final_path = OUTPUT_DIR \o << job_id, << "podcast.mp3" >> >>
        /\ final_path \in DOMAIN fs
        /\ fs[final_path].kind = "file"
        /\ clip_paths = << >> =>
              fs[final_path].audio = << [seg |-> "silence", ms |-> 1000, line |-> -1] >>
        /\ pc = "done" => response.body.audio_url # None

\* C2 witness: a job that completed with every stage degraded
C2_Witness ==
    /\ pc = "done"
    /\ llm_fault = "transport"
    /\ ~Truthy(ELEVENLABS_API_KEY) /\ clip_paths = << >>
    /\ jingle_fault = "poll" /\ jingle_path = None
    /\ ". (Wikipedia lookup failed -- generate from general knowledge.)" \in Range(research_brief)
    /\ fs[final_path].audio = << [seg |-> "silence", ms |-> 1000, line |-> -1] >>

RECURSIVE LeadingDigits(_)
LeadingDigits(name) ==
    IF name # << >> /\ Head(name) \in Range(Digits)
    THEN << Head(name) >> \o LeadingDigits(Tail(name))
    ELSE << >>

RECURSIVE DecimalValue(_)
DecimalValue(ds) ==
    IF ds = << >> THEN 0
    ELSE 10 * DecimalValue(SubSeq(ds, 1, Len(ds) - 1)) + (IndexIn(ds[Len(ds)], Digits) - 1)

\* the sequence index a clip's file name encodes
EncodedIndex(path) == DecimalValue(LeadingDigits(path[Len(path)]))

EncodedIndices(paths) == { EncodedIndex(paths[k]) : k \in 1..Len(paths) }

Contains(text, part) ==
    \E j \in 1..Len(text) : SubSeq(text, j, j + Len(part) - 1) = part

\* C4: with n lines of which the set F fails synthesis, generate_voice_clips
\* asks for every line and returns n - |F| clips whose file names encode
\* exactly the indices {0..n-1} \ F (checked where it returns to line 551).
C4_SurvivorsKeepTheirIndex ==
    (pc = "jingle" /\ Truthy(ELEVENLABS_API_KEY)) =>
        /\ Len(clip_paths) = Len(script) - Cardinality(synth_failed)
        /\ EncodedIndices(clip_paths) = (0..(Len(script) - 1)) \ synth_failed
        /\ Cardinality(EncodedIndices(clip_paths)) = Len(clip_paths)
        /\ { tts_requests[k].line : k \in 1..Len(tts_requests) } = 0..(Len(script) - 1)
        /\ \A k \in 1..Len(clip_paths) : clip_paths[k] \in DOMAIN fs

\* C4 witness: line 2 of ten failed, the clips are those of the other nine
C4_Witness ==
    /\ pc = "jingle"
    /\ Len(script) = 10
    /\ synth_failed = { 2 }
    /\ EncodedIndices(clip_paths) = { 0, 1, 3, 4, 5, 6, 7, 8, 9 }

ScriptReturned == \E k \in 1..Len(started) : started[k] = "script"

\* C6: generate_script returns at least one line, and every line is a dict
\* with a speaker among the two roles and a non-empty text.
C6_ScriptIsDialogue ==
    ScriptReturned =>
        /\ Len(script) >= 1
        /\ \A k \in 1..Len(script) :
              /\ script[k].isdict
              /\ script[k].has = { "speaker", "text" }
              /\ script[k].speaker \in { Alex, Sam }
              /\ script[k].text # EmptyStr

\* C7: when the script stage hits an error (no credentials, transport error,
\* missing fields, unparsable content) the script is the ten-line placeholder
\* for the topic, a function of the topic alone, and the job is not aborted.
C7_ErrorGivesPlaceholder ==
    llm_fault # "none" =>
        /\ pc # "failed"
        /\ script = _placeholder_script(topic)
        /\ Len(script) = 10
        /\ \A k \in 1..Len(script) :
              /\ script[k].isdict /\ script[k].has = { "speaker", "text" }
              /\ script[k].speaker = (IF k % 2 = 1 THEN Alex ELSE Sam)
              /\ script[k].text # EmptyStr
        /\ \A k \in { 1, 2, 4, 8 } : Contains(script[k].text, topic)

\* C7 witness: the LLM answered with content that holds no array
C7_Witness ==
    /\ llm_fault = "unparsable"
    /\ pc = "voice"
    /\ Len(script) = 10
    /\ "llm" \in requests

StageOrder == << "research", "script", "voice", "jingle", "assembly" >>

\* C8: the stages are called in the order research, script, voice, jingle,
\* assembly, each once, a stage only when no other is in progress.
C8_StagesInOrder ==
    /\ Len(started) <= Len(StageOrder)
    /\ started = SubSeq(StageOrder, 1, Len(started))
    /\ Cardinality(active) <= 1
    /\ active # {} => active = { started[Len(started)] }
    /\ pc = "done" => started = StageOrder /\ active = {}

\* C8 witness: a completed job whose voice and jingle stages both took steps
C8_Witness ==
    /\ pc = "done"
    /\ started = StageOrder
    /\ Len(clip_paths) = 2
    /\ jingle_path # None
    /\ response.status = 200

\* C9: a submission with blank topic and url is rejected before anything runs
\* (no job id, no directory, no stage), and no other submission fails.
C9_OnlyBlankSubmissionFails ==
    /\ pc = "rejected" =>
          /\ ~Truthy(topic) /\ ~Truthy(url)
          /\ response.status = 400
          /\ job_id = None
          /\ DOMAIN fs = { OUTPUT_DIR }
          /\ started = << >> /\ lookups = << >> /\ requests = {}
    /\ response.status \notin { 0, 200 } => ~Truthy(topic) /\ ~Truthy(url)

\* C3: generate_jingle polls at most 30 times, sleeping 2 units before each
\* poll; when every poll is answered as pending it returns None after exactly
\* 30 polls and 60 units of waiting.
C3_PollingIsBounded ==
    /\ polls <= 30
    /\ pc = "jingle_poll" => polls < 30 /\ waited = 2 * (polls + 1)
    /\ pc \in { "jingle_sleep", "stitch" } => waited = 2 * polls
    /\ pc = "jingle_sleep" => polls < 30
    /\ (pc = "stitch" /\ attempt = polls /\ polls > 0) =>
          polls = 30 /\ waited = 60 /\ jingle_path = None

\* C3 witness: thirty pending answers, then the return
C3_Witness ==
    /\ pc = "stitch"
    /\ attempt = 30 /\ polls = 30 /\ waited = 60
    /\ jingle_path = None /\ jingle_fault = "none"

\* C10: an exception at the submit call, at a poll or at the download ends
\* generate_jingle with None; the job is not aborted and goes on to assembly.
C10_JingleNeverRaises ==
    jingle_fault # "none" =>
        /\ pc \in { "stitch", "respond", "done" }
        /\ jingle_path = None
        /\ pc = "done" => response.status = 200 /\ started[Len(started)] = "assembly"

\* C10 witness: the download failed, the job completed with a master
C10_Witness ==
    /\ jingle_fault = "download"
    /\ pc = "done"
    /\ response.status = 200
    /\ fs[final_path].kind = "file"

\* C5: for the clips generate_voice_clips produced, the order of their file
\* names, in which stitch_podcast concatenates them, is the ascending order
\* of their sequence indices, and so is the order of the speech in the master.
C5_NameOrderIsSpeakingOrder ==
    /\ pc \in AfterVoice =>
          LET s == sorted(clip_paths)
          IN  \A k \in 1..(Len(s) - 1) : EncodedIndex(s[k]) < EncodedIndex(s[k + 1])
    /\ pc \in AfterAssembly =>
          LET master == fs[final_path].audio
              speech == SelectSeq(master, LAMBDA seg : seg.seg = "speech")
          IN  \A k \in 1..(Len(speech) - 1) : speech[k].line < speech[k + 1].line

\* C11: generate_jingle returns a jingle only with both credentials set, a
\* task handle from the submit call, a download issued after one of at most
\* 30 polls (the success status with a download reference) and the file
\* saved; when it returns None for lack of a task handle, for a success
\* without download reference, for the failure status or for the exhausted
\* budget (every return of None but the failed download) it has issued no
\* download and saved no file.
C11_JingleOnlyOnSuccess ==
    /\ downloads <= 1
    /\ downloads = 1 => polls >= 1
    /\ pc = "stitch" =>
          /\ jingle_path # None =>
                /\ Truthy(MINIMAX_API_KEY) /\ Truthy(MINIMAX_GROUP_ID)
                /\ "music" \in requests
                /\ polls \in 1..30
                /\ downloads = 1
                /\ jingle_fault = "none"
                /\ jingle_path = OUTPUT_DIR \o << job_id, << "jingle.mp3" >> >>
                /\ jingle_path \in DOMAIN fs
                /\ fs[jingle_path].kind = "file"
                /\ fs[jingle_path].audio # << >>
          /\ jingle_path = None =>
                /\ (OUTPUT_DIR \o << job_id, << "jingle.mp3" >> >>) \notin DOMAIN fs
                /\ jingle_fault # "download" => downloads = 0
                /\ jingle_fault = "download" => downloads = 1
          /\ (~Truthy(MINIMAX_API_KEY) \/ ~Truthy(MINIMAX_GROUP_ID)) =>
                jingle_path = None /\ polls = 0 /\ "music" \notin requests

\* C11 witness: twenty-nine pending answers, then the thirtieth poll reports
\* success with a download reference and the download is saved
C11_Witness ==
    /\ pc = "stitch"
    /\ attempt = 29 /\ polls = 30 /\ downloads = 1
    /\ jingle_path # None /\ jingle_path \in DOMAIN fs

\* the segments of a given kind in the exported master
SegmentsOf(kind) ==
    SelectSeq(fs[final_path].audio, LAMBDA seg : seg.seg = kind)

\* C12: given an empty clip list, stitch_podcast exports exactly 1000 ms of
\* silence and nothing else: no chime, no intro or outro, no part of the
\* jingle, whether or not a jingle is present.
C12_EmptyClipListGivesSilence ==
    (pc \in AfterAssembly /\ clip_paths = << >>) =>
        /\ Len(fs[final_path].audio) = 1
        /\ fs[final_path].audio[1].seg = "silence"
        /\ fs[final_path].audio[1].ms = 1000
        /\ SegmentsOf("chime") = << >>
        /\ SegmentsOf("jingle") = << >>
        /\ SegmentsOf("speech") = << >>

\* C12 witness: no clip, but a jingle and a bell sound are there
C12_Witness ==
    /\ pc = "done"
    /\ clip_paths = << >>
    /\ jingle_path # None /\ jingle_path \in DOMAIN fs
    /\ BellFile \in DOMAIN fs /\ create_bell_chime(fs)[1].ms = 1200
    /\ fs[final_path].audio[1].ms = 1000

RECURSIVE ClipTimeSum(_)
\* the sum over the clips of the clip's duration plus 400
ClipTimeSum(paths) ==
    IF paths = << >> THEN 0
    ELSE fs[Head(paths)].audio[1].ms + 400 + ClipTimeSum(Tail(paths))

RECURSIVE TotalMs(_)
TotalMs(audio) == IF audio = << >> THEN 0 ELSE audio[1].ms + TotalMs(Tail(audio))

\* C13: with N >= 1 clips and no jingle the master is chime, 1000 ms of
\* silence, each clip followed by 400 ms of silence (the last too), 800 ms
\* of silence, chime; its duration is chime + 1000 + sum(d_i + 400) + 800
\* + chime.
C13_FramingWithoutJingle ==
    (pc \in AfterAssembly /\ clip_paths # << >> /\ jingle_path = None) =>
        LET m == fs[final_path].audio
            n == Len(clip_paths)
        IN  /\ Len(m) = 2 * n + 4
            /\ m[1].seg = "chime"
            /\ m[2].seg = "silence" /\ m[2].ms = 1000
            /\ \A k \in 1..n :
                  /\ m[2 * k + 1] = fs[clip_paths[k]].audio[1]
                  /\ m[2 * k + 1].seg = "speech"
                  /\ m[2 * k + 2].seg = "silence" /\ m[2 * k + 2].ms = 400
            /\ m[2 * n + 3].seg = "silence" /\ m[2 * n + 3].ms = 800
            /\ m[2 * n + 4] = m[1]
            /\ TotalMs(m) = m[1].ms + 1000 + ClipTimeSum(clip_paths) + 800 + m[1].ms

\* C13 witness: three clips of different lengths, no jingle, the synthetic
\* chime: 800 + 1000 + (900 + 400) + (2500 + 400) + (900 + 400) + 800 + 800
C13_Witness ==
    /\ pc = "done"
    /\ jingle_path = None
    /\ Len(clip_paths) = 3
    /\ fs[clip_paths[2]].audio[1].ms = 2500
    /\ TotalMs(fs[final_path].audio) = 8900

\* C14: with N >= 1 clips and a jingle of length J the master is the intro
\* (the jingle cut to min(J, 12000) ms, 300 ms of silence, chime, 800 ms of
\* silence), the conversation, the outro (500 ms of silence, chime, 300 ms of
\* silence, the jingle cut to min(J, 8000) ms); without a jingle the master
\* has the other framing and holds no part of a jingle.
C14_FramingWithJingle ==
    (pc \in AfterAssembly /\ clip_paths # << >>) =>
        LET m == fs[final_path].audio
            n == Len(clip_paths)
        IN  IF jingle_path # None
            THEN LET J == fs[jingle_path].audio[1].ms
                 IN  /\ Len(m) = 2 * n + 8
                     /\ m[1].seg = "jingle"
                     /\ m[1].ms = (IF J < 12000 THEN J ELSE 12000)
                     /\ m[2].seg = "silence" /\ m[2].ms = 300
                     /\ m[3].seg = "chime"
                     /\ m[4].seg = "silence" /\ m[4].ms = 800
                     /\ \A k \in 1..n :
                           /\ m[2 * k + 3] = fs[clip_paths[k]].audio[1]
                           /\ m[2 * k + 4].seg = "silence" /\ m[2 * k + 4].ms = 400
                     /\ m[2 * n + 5].seg = "silence" /\ m[2 * n + 5].ms = 500
                     /\ m[2 * n + 6] = m[3]
                     /\ m[2 * n + 7].seg = "silence" /\ m[2 * n + 7].ms = 300
                     /\ m[2 * n + 8].seg = "jingle"
                     /\ m[2 * n + 8].ms = (IF J < 8000 THEN J ELSE 8000)
                     /\ Len(SegmentsOf("jingle")) = 2 /\ Len(SegmentsOf("chime")) = 2
            ELSE /\ SegmentsOf("jingle") = << >>
                 /\ m[1].seg = "chime"
                 /\ m[Len(m)].seg = "chime"

\* C14 witness: a jingle of 15000 ms framed around two clips, cut to 12000 ms
\* in the intro and to 8000 ms in the outro
C14_Witness ==
    /\ pc = "done"
    /\ jingle_path # None
    /\ fs[jingle_path].audio[1].ms = 15000
    /\ Len(clip_paths) = 2
    /\ fs[final_path].audio[1].ms = 12000
    /\ fs[final_path].audio[12].ms = 8000

\* C15: research never raises and returns a non-empty brief; on every failed
\* lookup (no title, empty extract, malformed answer, request error, empty
\* page) the brief is a marked placeholder that carries the topic or the
\* url; with no matching article it carries the topic and the
\* no-article-found marker.
C15_ResearchAlwaysBriefs ==
    /\ (started # << >>) = (lookup_outcome # "none")
    /\ lookup_outcome # "none" =>
          /\ research_brief # << >>
          /\ started[1] = "research"
    /\ (lookups = << "topic" >> /\ lookup_outcome = "no_titles") =>
          /\ Contains(research_brief, topic)
          /\ research_brief[1] = "Topic: "
          /\ research_brief[Len(research_brief)] =
                ". (No Wikipedia article found -- generate from general knowledge.)"
    /\ (lookups = << "topic" >> /\ lookup_outcome \in { "error", "malformed", "no_pages" }) =>
          /\ Contains(research_brief, topic)
          /\ research_brief[Len(research_brief)] =
                ". (Wikipedia lookup failed -- generate from general knowledge.)"
    /\ (lookups = << "topic" >> /\ lookup_outcome = "empty") =>
          /\ Contains(research_brief, topic)
          /\ research_brief[Len(research_brief)] =
                ". (Wikipedia extract was empty -- generate from general knowledge.)"
    /\ (lookups = << "url" >> /\ lookup_outcome = "error") =>
          /\ Contains(research_brief, url)
          /\ research_brief[Len(research_brief)] =
                ". (Scraping failed -- generate from general knowledge.)"
    /\ (lookups = << "url" >> /\ lookup_outcome = "empty") =>
          /\ Contains(research_brief, url)
          /\ research_brief[Len(research_brief)] =
                ". (Page content was empty -- generate from general knowledge.)"
    /\ lookup_outcome = "text" =>
          research_brief[1] \in { "Wikipedia -- ", "Source: " }

\* C15 witness: the topic "bh" has no article, the job went on to its end
C15_Witness ==
    /\ pc = "done"
    /\ lookup_outcome = "no_titles"
    /\ topic = << "b", "h" >>
    /\ research_brief = << "Topic: ", "b", "h",
                           ". (No Wikipedia article found -- generate from general knowledge.)" >>
    /\ response.body.research_brief = research_brief

\* C17: one lookup per job: the url lookup and no topic lookup when a url was
\* submitted (with or without a topic), the topic lookup and no url lookup
\* when none was.
C17_OneLookupPerJob ==
    /\ Len(lookups) <= 1
    /\ started = << >> => lookups = << >>
    /\ started # << >> =>
          /\ Len(lookups) = 1
          /\ url # EmptyStr => lookups = << "url" >>
          /\ url = EmptyStr => lookups = << "topic" >>
          /\ lookups = << "url" >> =>
                research_brief[1] \in { "Source: ", "Article URL: " }
          /\ lookups = << "topic" >> =>
                research_brief[1] \in { "Wikipedia -- ", "Topic: " }

\* C17 witness: a topic and a url were submitted, the url was looked up
C17_Witness ==
    /\ pc = "done"
    /\ topic = << "b", "h" >>
    /\ url = << "http://x/a" >>
    /\ lookups = << "url" >>

\* C18: with no LLM, speech or music credentials an accepted job issues no
\* request to those services and completes: its script is the ten-line
\* placeholder mentioning the topic, there are no clips and no jingle, and
\* the audio reference names the 1000 ms silent master.
C18_NoCredentialsRun ==
    (~Truthy(MINIMAX_API_KEY) /\ ~Truthy(ELEVENLABS_API_KEY) /\ job_id # None) =>
        /\ pc # "failed"
        /\ requests = {} /\ tts_requests = << >>
        /\ polls = 0 /\ downloads = 0
        /\ pc \in AfterScript =>
              /\ Len(script) = 10
              /\ \A k \in 1..10 : script[k].speaker = (IF k % 2 = 1 THEN Alex ELSE Sam)
              /\ Contains(script[1].text, topic)
        /\ pc \in AfterVoice => clip_paths = << >>
        /\ pc \in { "stitch", "respond", "done" } => jingle_path = None
        /\ pc = "done" =>
              /\ response.status = 200
              /\ response.body.script = script
              /\ response.body.clip_count = 0
              /\ response.body.has_audio = FALSE
              /\ response.body.audio_url = << "/output/" >> \o job_id \o << "/podcast.mp3" >>
              /\ fs[OUTPUT_DIR \o << job_id, << "podcast.mp3" >> >>].audio =
                    << [seg |-> "silence", ms |-> 1000, line |-> -1] >>

\* C18 witness: the topic "bh" with nothing configured, completed
C18_Witness ==
    /\ pc = "done"
    /\ MINIMAX_API_KEY = EmptyStr /\ MINIMAX_GROUP_ID = EmptyStr
    /\ ELEVENLABS_API_KEY = EmptyStr
    /\ topic = << "b", "h" >> /\ url = EmptyStr
    /\ Len(response.body.script) = 10
    /\ response.body.clip_count = 0
    /\ response.body.audio_url # None

\* the clip files under the job's clips directory
ClipFiles ==
    { p \in DOMAIN fs : /\ Len(p) = 4
                         /\ SubSeq(p, 1, 3) = OUTPUT_DIR \o << job_id, << "clips" >> >>
                         /\ fs[p].kind = "file" }

\* C19: the payload of a completed job reports as clip_count the number of
\* clips the voice stage produced, and has_audio exactly when that number is
\* positive; a run without any clip completes like any other.
C19_PayloadReportsClips ==
    pc = "done" =>
        /\ response.status = 200
        /\ response.body.clip_count = Len(clip_paths)
        /\ response.body.clip_count = Cardinality(ClipFiles)
        /\ Truthy(ELEVENLABS_API_KEY) =>
              response.body.clip_count = Len(script) - Cardinality(synth_failed)
        /\ response.body.has_audio = (response.body.clip_count > 0)

\* C19 witness: credentials set, the only line of the script failed to
\* synthesize: the job completed and reports no audio
C19_Witness ==
    /\ pc = "done"
    /\ Truthy(ELEVENLABS_API_KEY)
    /\ Len(script) = 1 /\ synth_failed = { 0 }
    /\ response.status = 200
    /\ response.body.clip_count = 0 /\ response.body.has_audio = FALSE
    /\ response.body.audio_url # None

\* the elements a JSON array text stands for
ValuesOf(a) == [k \in 1..Len(a) |-> JsonValue(a[k])]

\* C16: _parse_script_json returns the one line of a fenced one-element
\* array, returns the array of any text made of leading prose (with or
\* without square brackets in it) followed by a JSON array, and raises on a
\* text that holds no parsable array.
C16_ParseRecoversArray ==
    pc = "parsed" =>
        /\ \A x \in { "ALEX", "SAM" } :
              llm_content = << Fence, "json", "\n", "[", x, "]", "\n", Fence >> =>
                  parse_result.ok /\ Len(parse_result.val) = 1
        /\ \A a \in Arrays : \A prose \in LeadingProse :
              llm_content = prose \o ArrayText(a) =>
                  parse_result.ok /\ parse_result.val = ValuesOf(a)
        /\ llm_content \in { << >>, << "Sorry, I cannot help with that." >>,
                              << "[", "ALEX", "," >>, << "ALEX" >> } =>
              ~parse_result.ok

\* C20: two jobs that run concurrently have different identifiers, each
\* creates and writes only paths under its own output/<job_id>, and the sets
\* of paths the two create or write are disjoint.
C20_ConcurrentJobsWriteApart ==
    (jobs # << >> /\ jobs[1].job_id # None /\ jobs[2].job_id # None) =>
        /\ jobs[1].job_id # jobs[2].job_id
        /\ jobs[1].written \cap jobs[2].written = {}
        /\ \A r \in Clients : \A p \in jobs[r].written :
              SubSeq(p, 1, 2) = OUTPUT_DIR \o << jobs[r].job_id >>

\* C22: polling stops at the first terminal status: once a poll has reported
\* Failed or Success, generate_jingle has returned and neither sleeps nor
\* polls again; after Failed it has returned None at once, without a download.
C22_PollingStopsAtTerminalStatus ==
    /\ last_status \in { "Success", "Failed" } =>
          /\ pc = "stitch"
          /\ polls = attempt + 1
          /\ waited = 2 * polls
    /\ last_status = "Failed" =>
          /\ jingle_path = None
          /\ downloads = 0
          /\ jingle_fault = "none"
    /\ pc \in { "jingle_sleep", "jingle_poll" } => last_status \in { "none", "pending" }

\* C22 witness: two pending answers, then the third poll reports Failed
C22_Witness ==
    /\ pc = "stitch"
    /\ last_status = "Failed"
    /\ attempt = 2 /\ polls = 3 /\ waited = 6
    /\ jingle_path = None

\* C23: generate_voice_clips issues its requests one at a time in script
\* order: the k-th request is for line k - 1, so no line is asked twice,
\* every line before the one being asked has already succeeded (its clip is
\* in the list) or failed, and the clip list is in strictly ascending order
\* of sequence index.
C23_RequestsInScriptOrder ==
    /\ \A k \in 1..Len(tts_requests) : tts_requests[k].line = k - 1
    /\ Len(tts_requests) <= Len(script)
    /\ pc = "voice_loop" =>
          /\ Len(tts_requests) = i
          /\ EncodedIndices(clip_paths) \cup synth_failed = 0..(i - 1)
          /\ EncodedIndices(clip_paths) \cap synth_failed = {}
    /\ \A k \in 1..(Len(clip_paths) - 1) :
          EncodedIndex(clip_paths[k]) < EncodedIndex(clip_paths[k + 1])

\* C23 witness: ten lines asked in order, line 0 failed, line 1 and the
\* later ones followed and succeeded
C23_Witness ==
    /\ pc = "jingle"
    /\ Len(script) = 10
    /\ Len(tts_requests) = 10
    /\ synth_failed = { 0 }
    /\ EncodedIndex(clip_paths[1]) = 1
    /\ EncodedIndex(clip_paths[9]) = 9

\* C24: every line is synthesized with the voice of the role its speaker
\* label names: the label is one of the two roles, Alex's lines are asked
\* with Alex's voice and Sam's lines with Sam's voice, and the two voices
\* differ.
C24_VoiceOfLabelledRole ==
    /\ ELEVENLABS_VOICE_ALEX # ELEVENLABS_VOICE_SAM
    /\ \A k \in 1..Len(tts_requests) :
          LET line == script[tts_requests[k].line + 1]
          IN  \/ line.speaker = Alex /\ tts_requests[k].voice = ELEVENLABS_VOICE_ALEX
              \/ line.speaker = Sam /\ tts_requests[k].voice = ELEVENLABS_VOICE_SAM

\* C25: the payload of every completed job carries a reference that is not
\* null and names the master of that very job, /output/<job_id>/podcast.mp3,
\* which exists; this is so whatever has_audio and clip_count say.
C25_AudioReferenceAlwaysSet ==
    pc = "done" =>
        /\ response.status = 200
        /\ response.body.audio_url # None
        /\ response.body.audio_url =
              << "/output/" >> \o response.body.job_id \o << "/podcast.mp3" >>
        /\ response.body.job_id = job_id
        /\ exists(fs, OUTPUT_DIR \o << job_id, << "podcast.mp3" >> >>)

\* C25 witness: a completed job without speech credentials whose jingle
\* was downloaded: no audio reported, no clip counted, the reference set
\* all the same
C25_Witness ==
    /\ pc = "done"
    /\ ELEVENLABS_API_KEY = EmptyStr
    /\ tts_requests = << >>
    /\ jingle_path # None
    /\ response.body.has_audio = FALSE
    /\ response.body.clip_count = 0
    /\ response.body.audio_url = << "/output/" >> \o job_id \o << "/podcast.mp3" >>

====
